---- MODULE Spec2Model ----
(***************************************************************************)
(* A model of the HTTP/2 priority tree of src/src/priority/priority.py:    *)
(* the Stream objects, the PriorityTree with its top level and its         *)
(* identifier index, insert_stream (ordinary and exclusive), and the       *)
(* priorities query with the breadth-first _walk over blocked streams.     *)
(*                                                                         *)
(* Stream objects live in a heap (nodes); a reference is an index into it, *)
(* so that two objects with the same stream_id stay two objects.  A        *)
(* raised exception is the outcome of a call.  Effective weights are       *)
(* fractions <<numerator, denominator>> in lowest terms.                   *)
(***************************************************************************)
EXTENDS Integers, Sequences, FiniteSets, TLC

\* ------------------------------------------------------------------ bounds
\* Stream IDs passed to the calls are 0..MaxId.
MaxId == 3
\* At most MaxNodes Stream objects are ever placed in the tree.
MaxNodes == 3

\* ------------------------------------------------------- values and inputs
None == -1
DefaultWeight == 16
\* Another weight callers pass (the tests insert stream 7 with it).
OtherWeight == 32

StreamIds == 0..MaxId
\* depends_on as passed by a caller: left out (None) or a stream ID.
DependsOn == {None} \cup StreamIds
\* weight as passed by a caller: insert_stream takes any number.
Weights == {0, DefaultWeight, OtherWeight}
\* maximum_streams as passed to the constructor: left out, or a limit.
MaximumStreams == {None, 2}
\* blocked / unblocked as passed to priorities: None, or a collection of IDs.
NoneSet == {None}
StreamFilters == SUBSET StreamIds

VARIABLES
    nodes,          \* the heap of Stream objects: stream_id, weight, children
    _top_level,     \* PriorityTree._top_level: references, in order
    _streams,       \* PriorityTree._streams: stream ID -> reference
    true_division,  \* the interpreter: / on two integers is true division
                    \* (Python 3) or floor division (Python 2)
    last            \* the call that has just returned or raised, with its
                    \* arguments and its outcome; Idle between two calls

vars == <<nodes, _top_level, _streams, true_division, last>>

\* ---------------------------------------------------------------- Stream
Stream(stream_id, weight) ==
    [stream_id |-> stream_id, weight |-> weight, children |-> <<>>]

RECURSIVE GCD(_, _)
GCD(a, b) == IF b = 0 THEN a ELSE GCD(b, a % b)

\* The number n/d, d > 0, in lowest terms.
Fraction(n, d) == LET g == GCD(n, d) IN <<n \div g, d \div g>>

\* A Stream object as a value: what Stream.__eq__ compares.
RECURSIVE StreamValue(_, _, _)
StreamValue(heap, ref, weight) ==
    [stream_id |-> heap[ref].stream_id,
     weight    |-> weight,
     children  |-> [i \in 1..Len(heap[ref].children) |->
                      StreamValue(heap, heap[ref].children[i],
                                  Fraction(heap[heap[ref].children[i]].weight, 1))]]

\* ------------------------------------------------------------ PriorityTree
EmptyResult == [i \in {} |-> 0]

Call(op, stream_id, depends_on, weight, exclusive, blocked, unblocked, maximum_streams, outcome, result) ==
    [op |-> op, stream_id |-> stream_id, depends_on |-> depends_on,
     weight |-> weight, exclusive |-> exclusive,
     blocked |-> blocked, unblocked |-> unblocked,
     maximum_streams |-> maximum_streams,
     outcome |-> outcome, result |-> result]

\* PriorityTree.__init__(self) takes no argument: a call that passes
\* maximum_streams raises TypeError and there is no tree.
InitCall(maximum_streams) ==
    Call("__init__", None, None, None, FALSE, NoneSet, NoneSet, maximum_streams,
         IF maximum_streams = None THEN "ok" ELSE "TypeError", EmptyResult)

Init ==
    /\ nodes = <<>>
    /\ _top_level = <<>>
    /\ _streams = [i \in {} |-> 0]
    /\ true_division \in BOOLEAN
    /\ \E maximum_streams \in MaximumStreams : last = InitCall(maximum_streams)

\* No call is under way.
Idle == Call("idle", None, None, None, FALSE, NoneSet, NoneSet, None, "ok",
             EmptyResult)

\* There is a tree to call into.
Constructed == ~(last.op = "__init__" /\ last.outcome # "ok")

InsertCall(stream_id, depends_on, weight, exclusive, outcome) ==
    Call("insert_stream", stream_id, depends_on, weight, exclusive,
         NoneSet, NoneSet, None, outcome, EmptyResult)

\* _exclusive_insert that appends the inserted stream to the parent's children
\* instead of replacing them: the old children stay under the parent too.
_exclusive_insert_appends(heap, parent_stream, inserted_stream) ==
    LET old_children == heap[parent_stream].children
    IN [heap EXCEPT ![parent_stream].children =
                        Append(old_children, inserted_stream),
                    ![inserted_stream].children = old_children]

\* The heap after _exclusive_insert(parent_stream, inserted_stream).
_exclusive_insert(heap, parent_stream, inserted_stream) ==
    LET old_children == heap[parent_stream].children
    IN [heap EXCEPT ![parent_stream].children = <<inserted_stream>>,
                    ![inserted_stream].children = old_children]

\* A call that raises before it has changed anything: the assert of the
\* exclusive branch (AssertionError) and the lookup self._streams[depends_on]
\* (KeyError) both come before the first assignment.
Raise(call) ==
    /\ last' = call
    /\ UNCHANGED <<nodes, _top_level, _streams, true_division>>

insert_stream(stream_id, depends_on, weight, exclusive) ==
    LET stream == Len(nodes) + 1
        heap   == Append(nodes, Stream(stream_id, weight))
    IN
    IF exclusive
    THEN IF depends_on = None
         THEN Raise(InsertCall(stream_id, depends_on, weight, exclusive,
                               "AssertionError"))
         ELSE IF depends_on \notin DOMAIN _streams
         THEN Raise(InsertCall(stream_id, depends_on, weight, exclusive,
                               "KeyError"))
         ELSE /\ Len(nodes) < MaxNodes
              /\ nodes' = _exclusive_insert(heap, _streams[depends_on], stream)
              /\ last' = InsertCall(stream_id, depends_on, weight, exclusive, "ok")
              /\ UNCHANGED <<_top_level, _streams, true_division>>
    ELSE IF depends_on # None /\ depends_on # 0
         THEN IF depends_on \notin DOMAIN _streams
              THEN Raise(InsertCall(stream_id, depends_on, weight, exclusive,
                                    "KeyError"))
              ELSE /\ Len(nodes) < MaxNodes
                   /\ nodes' = [heap EXCEPT ![_streams[depends_on]].children =
                                                Append(@, stream)]
                   /\ _streams' = [i \in DOMAIN _streams \cup {stream_id} |->
                                    IF i = stream_id THEN stream ELSE _streams[i]]
                   /\ last' = InsertCall(stream_id, depends_on, weight, exclusive, "ok")
                   /\ UNCHANGED <<_top_level, true_division>>
         ELSE /\ Len(nodes) < MaxNodes
              /\ nodes' = heap
              /\ _top_level' = Append(_top_level, stream)
              /\ _streams' = [i \in DOMAIN _streams \cup {stream_id} |->
                               IF i = stream_id THEN stream ELSE _streams[i]]
              /\ last' = InsertCall(stream_id, depends_on, weight, exclusive, "ok")
              /\ UNCHANGED true_division


\* ------------------------------------------------------ the tree as a whole
Range(seq) == {seq[i] : i \in 1..Len(seq)}

\* The streams of the subtree of ref: ref and all below it.
RECURSIVE Subtree(_, _)
Subtree(heap, ref) ==
    {ref} \cup UNION {Subtree(heap, c) : c \in Range(heap[ref].children)}

\* The streams in the tree: those reached from the top level through children.
TreeRefsOf(heap, top) == UNION {Subtree(heap, r) : r \in Range(top)}
TreeIdsOf(heap, top) == {heap[r].stream_id : r \in TreeRefsOf(heap, top)}
TreeRefs == TreeRefsOf(nodes, _top_level)
TreeIds == TreeIdsOf(nodes, _top_level)

\* The streams above ref, its parent first; a top-level stream has none (its
\* parent is the root, which is no Stream object).
ProperAncestors(heap, top, ref) ==
    {a \in TreeRefsOf(heap, top) : a # ref /\ ref \in Subtree(heap, a)}

\* No two streams in the tree have the same stream_id.
DistinctIds ==
    \A r1, r2 \in TreeRefs : nodes[r1].stream_id = nodes[r2].stream_id => r1 = r2

\* ---------------------------------------------------------------- _walk
RECURSIVE SumWeights(_, _)
SumWeights(heap, refs) ==
    IF refs = <<>> THEN 0
    ELSE heap[Head(refs)].weight + SumWeights(heap, Tail(refs))

\* level_weight(streams): the sum of the weights of the streams of a level.
level_weight(heap, refs) == SumWeights(heap, refs)

\* effective_stream_weight: fractional_weight = weight / total_sibling_weight,
\* then fractional_weight * parent_weight.  The module does not import
\* division from __future__: / on two integers is true division under
\* Python 3 and floor division under Python 2 (division says which).
\* A float is taken as the exact fraction it stands for.
\* total_sibling_weight is not 0 here.
effective_stream_weight(weight, total_sibling_weight, parent_weight, division) ==
    IF division
    THEN Fraction(weight * parent_weight, total_sibling_weight)
    ELSE Fraction((weight \div total_sibling_weight) * parent_weight, 1)

\* s = copy(stream); s.weight = effective_weight, with the stream assigned
\* directly (s = stream): the weight is written to the stream in the tree
\* (its whole part, the weights of the heap being integers).
assign_weight_without_copy(heap, stream, effective_weight) ==
    [heap EXCEPT ![stream].weight = effective_weight[1] \div effective_weight[2]]

\* s = copy(stream); s.weight = effective_weight: the heap of the tree's
\* streams after the assignment.  s is a new object (a shallow copy, which
\* shares the children list), so no stream of the tree is written.
assign_weight(heap, stream, effective_weight) == heap

\* The while loop of _walk: possible_streams is the deque of
\* <<stream, effective weight>>, yielded the streams yielded so far, each with
\* the weight written to its copy.  The generator that extends the deque
\* divides by the level's total weight once per child: a blocked stream whose
\* children weigh 0 in total raises ZeroDivisionError.
\* examined lists the streams popped so far; the record returned also holds
\* the heap as the loop's assignments leave it.
RECURSIVE WalkLoop(_, _, _, _, _, _)
WalkLoop(heap, stream_filter, possible_streams, yielded, examined, division) ==
    IF possible_streams = <<>>
    THEN [outcome |-> "ok", yielded |-> yielded, examined |-> examined,
          heap |-> heap]
    ELSE LET stream           == Head(possible_streams)[1]
             effective_weight == Head(possible_streams)[2]
             rest             == Tail(possible_streams)
             children         == heap[stream].children
             total_weight     == level_weight(heap, children)
         IN IF heap[stream].stream_id \in stream_filter
            THEN IF children # <<>> /\ total_weight = 0
                 THEN [outcome |-> "ZeroDivisionError", yielded |-> yielded,
                       examined |-> Append(examined, stream), heap |-> heap]
                 ELSE WalkLoop(heap, stream_filter,
                               rest \o [i \in 1..Len(children) |->
                                         <<children[i],
                                           effective_stream_weight(
                                               heap[children[i]].weight,
                                               total_weight,
                                               heap[stream].weight,
                                               division)>>],
                               yielded, Append(examined, stream), division)
            ELSE WalkLoop(assign_weight(heap, stream, effective_weight),
                          stream_filter, rest,
                          Append(yielded, <<stream, effective_weight>>),
                          Append(examined, stream), division)

\* _walk with the original level populated like the levels below it: each
\* top-level stream starts with its share of the level, weight / total weight
\* of the top level, instead of its own weight.
_walk_top_level_shares(heap, top, stream_filter, division) ==
    IF top # <<>> /\ level_weight(heap, top) = 0
    THEN [outcome |-> "ZeroDivisionError", yielded |-> <<>>,
          examined |-> <<>>, heap |-> heap]
    ELSE WalkLoop(heap, stream_filter,
                  [i \in 1..Len(top) |->
                      <<top[i], effective_stream_weight(heap[top[i]].weight,
                                                        level_weight(heap, top),
                                                        1, division)>>],
                  <<>>, <<>>, division)

\* _walk(stream_filter), run to its end.
_walk(heap, top, stream_filter, division) ==
    WalkLoop(heap, stream_filter,
             [i \in 1..Len(top) |-> <<top[i], Fraction(heap[top[i]].weight, 1)>>],
             <<>>, <<>>, division)

\* ------------------------------------------------------------ Priorities
\* Priorities(streams)._nodes: {node.stream_id: node for node in streams}; of
\* two streams with one stream_id the later one stays.  The value is what
\* Priorities.__eq__ compares.
Priorities(heap, yielded) ==
    LET ids == {heap[yielded[i][1]].stream_id : i \in 1..Len(yielded)}
        at(id) == CHOOSE i \in 1..Len(yielded) :
                    /\ heap[yielded[i][1]].stream_id = id
                    /\ \A j \in (i + 1)..Len(yielded) :
                          heap[yielded[j][1]].stream_id # id
    IN [id \in ids |-> StreamValue(heap, yielded[at(id)][1], yielded[at(id)][2])]

\* priorities with the test for both arguments written on their truth values
\* (if blocked and unblocked): empty collections pass it.
priorities_truthiness(heap, top, index, blocked, unblocked, division) ==
    IF blocked = NoneSet /\ unblocked = NoneSet
    THEN [outcome |-> "ok",
          result  |-> Priorities(heap, [i \in 1..Len(top) |->
                                   <<top[i], Fraction(heap[top[i]].weight, 1)>>]),
          heap    |-> heap]
    ELSE IF blocked \notin {NoneSet, {}} /\ unblocked \notin {NoneSet, {}}
    THEN [outcome |-> "ValueError", result |-> EmptyResult, heap |-> heap]
    ELSE LET all_stream_ids == DOMAIN index
             stream_filter  == IF unblocked # NoneSet
                               THEN all_stream_ids \ unblocked
                               ELSE blocked
             walk == _walk(heap, top, stream_filter, division)
         IN IF walk.outcome = "ok"
            THEN [outcome |-> "ok", result |-> Priorities(heap, walk.yielded),
                  heap |-> walk.heap]
            ELSE [outcome |-> walk.outcome, result |-> EmptyResult,
                  heap |-> walk.heap]

\* priorities(blocked, unblocked): the outcome, the Priorities returned and
\* the heap after the call.
priorities(heap, top, index, blocked, unblocked, division) ==
    IF blocked = NoneSet /\ unblocked = NoneSet
    THEN [outcome |-> "ok",
          result  |-> Priorities(heap, [i \in 1..Len(top) |->
                                   <<top[i], Fraction(heap[top[i]].weight, 1)>>]),
          heap    |-> heap]
    ELSE IF blocked # NoneSet /\ unblocked # NoneSet
    THEN [outcome |-> "ValueError", result |-> EmptyResult, heap |-> heap]
    ELSE LET all_stream_ids == DOMAIN index
             stream_filter  == IF unblocked # NoneSet
                               THEN all_stream_ids \ unblocked
                               ELSE blocked
             walk == _walk(heap, top, stream_filter, division)
         IN IF walk.outcome = "ok"
            THEN [outcome |-> "ok", result |-> Priorities(heap, walk.yielded),
                  heap |-> walk.heap]
            ELSE [outcome |-> walk.outcome, result |-> EmptyResult,
                  heap |-> walk.heap]

PrioritiesCall(blocked, unblocked) ==
    LET r == priorities(nodes, _top_level, _streams, blocked, unblocked,
                        true_division)
    IN Call("priorities", None, None, None, FALSE, blocked, unblocked,
            None, r.outcome, r.result)

\* ---------------------------------------------------------------- actions
InsertStream ==
    /\ last = Idle
    /\ \E stream_id \in StreamIds, depends_on \in DependsOn,
          weight \in Weights, exclusive \in BOOLEAN :
          insert_stream(stream_id, depends_on, weight, exclusive)

\* The arguments of a priorities call: neither filter, one of them, or both
\* (from BothFilters).
BothFilters == {{}, {1}}
FilterArguments ==
    {<<NoneSet, NoneSet>>}
        \cup {<<b, NoneSet>> : b \in StreamFilters}
        \cup {<<NoneSet, u>> : u \in StreamFilters}
        \cup (BothFilters \X BothFilters)

\* priorities assigns neither _top_level nor _streams; the streams are left as
\* its walk leaves them.
QueryPriorities ==
    /\ last = Idle
    /\ \E args \in FilterArguments :
          /\ last' = PrioritiesCall(args[1], args[2])
          /\ nodes' = priorities(nodes, _top_level, _streams, args[1], args[2],
                                true_division).heap
    /\ UNCHANGED <<_top_level, _streams, true_division>>

\* The methods callers use on a tree that PriorityTree does not define.
AbsentMethods == {"remove_stream", "reprioritize", "block", "unblock"}

\* tree.remove_stream(stream_id) and the like: the attribute lookup raises
\* AttributeError before anything is called.
AbsentCall(op, stream_id) ==
    Call(op, stream_id, None, None, FALSE, NoneSet, NoneSet, None,
         "AttributeError", EmptyResult)

CallAbsentMethod ==
    /\ last = Idle
    /\ \E op \in AbsentMethods, stream_id \in StreamIds :
          last' = AbsentCall(op, stream_id)
    /\ UNCHANGED <<nodes, _top_level, _streams, true_division>>

\* next(tree): PriorityTree defines neither __next__ nor next, so the built-in
\* raises TypeError (not an iterator).
NextCall ==
    Call("next", None, None, None, FALSE, NoneSet, NoneSet, None, "TypeError",
         EmptyResult)

CallNext ==
    /\ last = Idle
    /\ last' = NextCall
    /\ UNCHANGED <<nodes, _top_level, _streams, true_division>>

\* The caller takes the outcome of the call and is ready for the next one.
\* Without a tree (the constructor raised) there is nothing to call.
Return ==
    /\ last # Idle
    /\ Constructed
    /\ last' = Idle
    /\ UNCHANGED <<nodes, _top_level, _streams, true_division>>

Next ==
    \/ InsertStream
    \/ QueryPriorities
    \/ CallAbsentMethod
    \/ CallNext
    \/ Return

Spec == Init /\ [][Next]_vars

\* ------------------------------------------------------ comparing Streams
\* The comparisons a caller writes between two Stream objects s1 and s2.
CompareOps == {"__lt__", "__le__", "__gt__", "__ge__", "__eq__", "__ne__"}

\* Stream.__eq__(self, other), both Stream objects: stream_id, weight and
\* children are compared.
__eq__(heap, self, other) ==
    StreamValue(heap, self, Fraction(heap[self].weight, 1))
        = StreamValue(heap, other, Fraction(heap[other].weight, 1))

\* Stream.__ne__(self, other).
__ne__(heap, self, other) == ~__eq__(heap, self, other)

\* s1 op s2.  Stream defines __eq__ and __ne__ and no ordering method: under
\* Python 3 an ordering comparison raises TypeError; under Python 2 it falls
\* back to the order of the two objects' addresses (below: s1 lies below s2).
compare(heap, op, s1, s2, below, python3) ==
    IF op = "__eq__" THEN [outcome |-> "ok", result |-> __eq__(heap, s1, s2)]
    ELSE IF op = "__ne__" THEN [outcome |-> "ok", result |-> __ne__(heap, s1, s2)]
    ELSE IF python3 THEN [outcome |-> "TypeError", result |-> EmptyResult]
    ELSE [outcome |-> "ok",
          result  |-> IF op \in {"__lt__", "__le__"} THEN below ELSE ~below]

CompareCall(op, below) ==
    LET r == compare(nodes, op, 1, 2, below, true_division)
    IN Call(op, None, None, None, FALSE, NoneSet, NoneSet, None, r.outcome,
            r.result)

\* Two Stream objects, s1 and s2, as a caller constructs them; no tree.
InitCompare ==
    /\ \E a \in StreamIds, b \in StreamIds, w1 \in Weights, w2 \in Weights :
          nodes = <<Stream(a, w1), Stream(b, w2)>>
    /\ _top_level = <<>>
    /\ _streams = [i \in {} |-> 0]
    /\ true_division \in BOOLEAN
    /\ last = Idle

CompareStreams ==
    /\ last = Idle
    /\ \E op \in CompareOps, below \in BOOLEAN : last' = CompareCall(op, below)
    /\ UNCHANGED <<nodes, _top_level, _streams, true_division>>

NextCompare == CompareStreams \/ Return

SpecCompare == InitCompare /\ [][NextCompare]_vars

\* ------------------------------------------------------------------ claims
\* The range of weights the claims speak of.
WeightRange == 1..256

\* A tree as callers that keep to the protocol build it: positive stream IDs,
\* no ID twice, weights in the range.
ProperTree ==
    /\ DistinctIds
    /\ \A r \in TreeRefs : nodes[r].stream_id > 0 /\ nodes[r].weight \in WeightRange

\* A step that is a call of insert_stream.
InsertStep == last = Idle /\ last'.op = "insert_stream"

\* A call of insert_stream on a proper tree with a positive stream ID and a
\* weight in the range.
ProperInsertStep ==
    /\ InsertStep
    /\ ProperTree
    /\ last'.stream_id > 0
    /\ last'.weight \in WeightRange

\* C1: insert_stream with a stream_id that is already in the tree fails with
\* DuplicateStreamError, and the tree still holds exactly one stream with that
\* stream_id: nothing is appended, the index entry is not replaced.
C1_DuplicateInsertFails ==
    [][(ProperInsertStep /\ last'.stream_id \in TreeIds)
         => /\ last'.outcome = "DuplicateStreamError"
            /\ UNCHANGED <<nodes, _top_level, _streams>>
            /\ Cardinality({r \in TreeRefsOf(nodes', _top_level') :
                              nodes'[r].stream_id = last'.stream_id}) = 1]_vars

\* C2: insert_stream(s, depends_on = p) with p positive and absent does not
\* fail, exclusive or not: afterwards p is a child of the root with the default
\* weight, s is a child of p with the requested weight, both are in the index.
C2_AbsentParentCreated ==
    [][(/\ ProperInsertStep
        /\ last'.depends_on > 0
        /\ last'.depends_on \notin TreeIds
        /\ last'.stream_id \notin TreeIds
        /\ last'.stream_id # last'.depends_on)
         => /\ last'.outcome = "ok"
            /\ {last'.depends_on, last'.stream_id} \subseteq DOMAIN _streams'
            /\ LET p == _streams'[last'.depends_on]
                   s == _streams'[last'.stream_id]
               IN /\ p \in Range(_top_level')
                  /\ nodes'[p].stream_id = last'.depends_on
                  /\ nodes'[p].weight = DefaultWeight
                  /\ s \in Range(nodes'[p].children)
                  /\ nodes'[s].stream_id = last'.stream_id
                  /\ nodes'[s].weight = last'.weight]_vars

\* C3: for every stream p in the tree, insert_stream(x, depends_on = p,
\* exclusive = True) leaves p with exactly one child, x, whose children are the
\* former children of p in their former order, with their weights; no other
\* stream's children change.
C3_ExclusiveInsertUnderAnyStream ==
    [][(/\ ProperInsertStep
        /\ last'.exclusive
        /\ last'.depends_on \in TreeIds
        /\ last'.stream_id \notin TreeIds)
         => /\ last'.outcome = "ok"
            /\ Len(nodes') = Len(nodes) + 1
            /\ LET p == CHOOSE r \in TreeRefs : nodes[r].stream_id = last'.depends_on
                   x == Len(nodes')
               IN /\ nodes'[x].stream_id = last'.stream_id
                  /\ nodes'[p].children = <<x>>
                  /\ nodes'[x].children = nodes[p].children
                  /\ \A r \in 1..Len(nodes) : r # p => nodes'[r] = nodes[r]
                  /\ nodes'[p].weight = nodes[p].weight
                  /\ _top_level' = _top_level]_vars

\* C4: after successful insert_stream calls, ordinary or exclusive, the index
\* has exactly one entry for every stream in the tree and none for another ID,
\* and each entry is the stream that is in the tree.
C4_IndexMatchesTree ==
    ProperTree =>
        /\ DOMAIN _streams = TreeIds
        /\ \A id \in DOMAIN _streams :
              _streams[id] \in TreeRefs /\ nodes[_streams[id]].stream_id = id

\* C5: blocking isomorphism: for every set S of streams of the tree,
\* priorities(blocked = S) equals priorities(unblocked = T), T being all the
\* streams of the tree that are not in S.
C5_BlockingIsomorphism ==
    ProperTree =>
        \A S \in SUBSET TreeIds :
            priorities(nodes, _top_level, _streams, S, NoneSet, true_division)
                = priorities(nodes, _top_level, _streams, NoneSet, TreeIds \ S,
                             true_division)

\* The streams the claims expect served when blocked is the blocked set: those
\* not blocked whose proper ancestors are all blocked.
Served(blocked) ==
    {nodes[s].stream_id : s \in
        {r \in TreeRefs :
            /\ nodes[r].stream_id \notin blocked
            /\ \A a \in ProperAncestors(nodes, _top_level, r) :
                  nodes[a].stream_id \in blocked}}

\* C6: for every tree of streams with distinct IDs and every blocked set B,
\* priorities(blocked = B) selects exactly the streams that are not in B and
\* whose proper ancestors are all in B.
C6_ServedStreams ==
    (DistinctIds /\ \A s \in TreeRefs : nodes[s].stream_id > 0) =>
        \A B \in StreamFilters :
            LET r == priorities(nodes, _top_level, _streams, B, NoneSet,
                                true_division)
            IN r.outcome = "ok" /\ DOMAIN r.result = Served(B)

\* C7: with every stream of the tree blocked, asking for the streams to serve
\* raises DeadlockError (no stream, no empty result); with all but one stream k
\* blocked, the answer is k.
C7_DeadlockWhenAllBlocked ==
    /\ (/\ ProperTree
        /\ TreeIds # {}
        /\ last.op = "priorities"
        /\ last.blocked # NoneSet
        /\ last.unblocked = NoneSet
        /\ TreeIds \subseteq last.blocked)
         => last.outcome = "DeadlockError"
    /\ \A k \in TreeIds :
        (/\ ProperTree
         /\ last.op = "priorities"
         /\ last.blocked = NoneSet
         /\ last.unblocked = {k})
          => last.outcome = "ok" /\ DOMAIN last.result = {k}

\* C8: a tree is created with a maximum_streams limit, and the number of
\* streams in it never exceeds that limit.
C8_MaximumStreamsEnforced ==
    (last.op = "__init__" /\ last.maximum_streams # None)
        => /\ last.outcome = "ok"
           /\ Cardinality(TreeRefs) <= last.maximum_streams

\* C9: every stream in the tree has a weight in [1, 256] after every call:
\* insert_stream with a weight outside it fails with BadWeightError and leaves
\* the tree unchanged.
C9_WeightsInRange ==
    [][(InsertStep /\ ProperTree /\ last'.stream_id > 0)
         => /\ \A r \in TreeRefsOf(nodes', _top_level') :
                  nodes'[r].weight \in WeightRange
            /\ last'.weight \notin WeightRange
                 => /\ last'.outcome = "BadWeightError"
                    /\ UNCHANGED <<nodes, _top_level, _streams>>]_vars

\* C10: insert_stream is all-or-nothing: a call that raises leaves the top
\* level, every stream and the index as they were; a call that succeeds has
\* updated the tree and the index, the new stream being in both.
C10_InsertAllOrNothing ==
    [][(ProperInsertStep /\ last'.stream_id \notin TreeIds) =>
         IF last'.outcome # "ok"
         THEN UNCHANGED <<nodes, _top_level, _streams>>
         ELSE /\ <<nodes, _top_level>> # <<nodes', _top_level'>>
              /\ _streams' # _streams
              /\ last'.stream_id \in DOMAIN _streams'
              /\ _streams'[last'.stream_id] \in TreeRefsOf(nodes', _top_level')
              /\ nodes'[_streams'[last'.stream_id]].stream_id = last'.stream_id]_vars


\* C11: stream 0 is only ever the implicit root: after any insert_stream calls
\* no stream with stream_id 0 is in the top level or in a children list, and
\* every stream ID that priorities hands out is positive.
C11_StreamZeroIsOnlyTheRoot ==
    (\A r \in TreeRefs : nodes[r].weight \in WeightRange) =>
        /\ \A r \in TreeRefs : nodes[r].stream_id # 0
        /\ (last.op = "priorities" /\ last.outcome = "ok")
             => \A id \in DOMAIN last.result : id > 0

\* What the comparison op gives for the stream IDs a and b.
CompareIds(op, a, b) ==
    CASE op = "__lt__" -> a < b
      [] op = "__le__" -> a <= b
      [] op = "__gt__" -> a > b
      [] op = "__ge__" -> a >= b
      [] op = "__eq__" -> a = b
      [] op = "__ne__" -> a # b

\* C12: two Stream objects compare by stream ID alone, whatever their weights:
\* s1 < s2, s1 <= s2, s1 > s2, s1 >= s2, s1 == s2 and s1 != s2 hold exactly
\* when the same holds of their IDs.
C12_StreamsCompareById ==
    last.op \in CompareOps
        => /\ last.outcome = "ok"
           /\ last.result = CompareIds(last.op, nodes[1].stream_id,
                                       nodes[2].stream_id)

\* The stream with stream_id id in the tree of heap and top, the stream IDs of
\* the children of id (0: the root) and the stream ID of the parent of id.
NodeOf(heap, top, id) ==
    CHOOSE r \in TreeRefsOf(heap, top) : heap[r].stream_id = id

ChildIds(heap, top, id) ==
    IF id = 0
    THEN {heap[r].stream_id : r \in Range(top)}
    ELSE {heap[r].stream_id : r \in Range(heap[NodeOf(heap, top, id)].children)}

ParentId(heap, top, id) ==
    IF NodeOf(heap, top, id) \in Range(top)
    THEN 0
    ELSE heap[CHOOSE p \in TreeRefsOf(heap, top) :
                  NodeOf(heap, top, id) \in Range(heap[p].children)].stream_id

\* C13: remove_stream(s), s in the tree, takes s out of its parent's children
\* and out of the index and makes every former child of s a child of s's former
\* parent, weight unchanged; so the streams served after the removal are those
\* served with s blocked instead.
C13_RemoveStreamReparents ==
    [][(/\ last = Idle
        /\ ProperTree
        /\ last'.op = "remove_stream"
        /\ last'.stream_id \in TreeIds)
         => LET s == last'.stream_id
                p == ParentId(nodes, _top_level, s)
                kids == ChildIds(nodes, _top_level, s)
            IN /\ last'.outcome = "ok"
               /\ TreeIdsOf(nodes', _top_level') = TreeIds \ {s}
               /\ s \notin DOMAIN _streams'
               /\ ChildIds(nodes', _top_level', p)
                    = (ChildIds(nodes, _top_level, p) \ {s}) \cup kids
               /\ \A c \in kids :
                     nodes'[NodeOf(nodes', _top_level', c)].weight
                         = nodes[NodeOf(nodes, _top_level, c)].weight
               /\ ChildIds(nodes', _top_level', 0) = Served({s})]_vars

\* C14: reprioritize, block, unblock and remove_stream with a stream ID that is
\* not in the tree fail with MissingStreamError and leave the tree unchanged.
C14_MissingStreamError ==
    [][(/\ last = Idle
        /\ ProperTree
        /\ last'.op \in {"reprioritize", "block", "unblock", "remove_stream"}
        /\ last'.stream_id > 0
        /\ last'.stream_id \notin TreeIds)
         => /\ last'.outcome = "MissingStreamError"
            /\ UNCHANGED <<nodes, _top_level, _streams>>]_vars

\* A non-empty tree of one level, all weights in the range, IDs distinct.
SingleLevel ==
    /\ ProperTree
    /\ TreeRefs # {}
    /\ \A r \in TreeRefs : nodes[r].children = <<>>

\* C15: on a single-level tree of active streams with weights w_1..w_n of sum
\* P, the streams returned by repeated next calls repeat with period P after
\* the first n, each returned in proportion to its weight within a period.
\* Stated here is what the sequence needs of every one of its calls: next
\* returns a stream of the tree.
C15_NextReturnsInProportion ==
    (SingleLevel /\ last.op = "next")
        => last.outcome = "ok" /\ last.result \in TreeIds

\* C16: priorities(blocked = B, unblocked = U) with both arguments given fails
\* with ValueError on every tree, for every B and U, empty ones too, and
\* leaves the tree unchanged.
C16_BothFiltersValueError ==
    [][(/\ last = Idle
        /\ last'.op = "priorities"
        /\ last'.blocked # NoneSet
        /\ last'.unblocked # NoneSet)
         => /\ last'.outcome = "ValueError"
            /\ UNCHANGED <<nodes, _top_level, _streams>>
            /\ \A B \in StreamFilters, U \in StreamFilters :
                  priorities(nodes, _top_level, _streams, B, U,
                             true_division).outcome = "ValueError"]_vars

\* priorities was called with two empty collections on a tree that holds a
\* stream with children, and raised ValueError.
C16_Witness ==
    /\ last.op = "priorities"
    /\ last.blocked = {}
    /\ last.unblocked = {}
    /\ last.outcome = "ValueError"
    /\ \E r \in TreeRefs : nodes[r].children # <<>>

\* The sum of the effective weights that result reports for the streams ids.
AddFractions(x, y) == Fraction(x[1] * y[2] + y[1] * x[2], x[2] * y[2])

RECURSIVE SumReported(_, _)
SumReported(result, ids) ==
    IF ids = {} THEN Fraction(0, 1)
    ELSE LET id == CHOOSE i \in ids : TRUE
         IN AddFractions(result[id].weight, SumReported(result, ids \ {id}))

\* C17: a blocked stream does not forfeit its subtree's share.  For every
\* blocked set B that holds no leaf, the effective weights priorities(blocked
\* = B) reports for the streams selected below a blocked stream P sum to the
\* effective weight P is reported with when it is not blocked, at every depth;
\* and all reported weights sum to the sum of the top-level weights.  (Stated
\* for true division, weights in the range and distinct positive IDs.)
C17_BlockedShareIsKept ==
    (last = Idle /\ true_division /\ ProperTree) =>
        \A B \in SUBSET TreeIds :
            (\A r \in TreeRefs :
                nodes[r].children = <<>> => nodes[r].stream_id \notin B)
            => LET got == priorities(nodes, _top_level, _streams, B, NoneSet,
                                     true_division)
               IN /\ got.outcome = "ok"
                  /\ \A p \in TreeRefs :
                        (/\ nodes[p].stream_id \in B
                         /\ \A a \in ProperAncestors(nodes, _top_level, p) :
                               nodes[a].stream_id \in B)
                        => LET P == nodes[p].stream_id
                               below == {nodes[r].stream_id :
                                            r \in Subtree(nodes, p)}
                                        \cap DOMAIN got.result
                               alone == priorities(nodes, _top_level, _streams,
                                                   B \ {P}, NoneSet,
                                                   true_division)
                           IN /\ alone.outcome = "ok"
                              /\ P \in DOMAIN alone.result
                              /\ SumReported(got.result, below)
                                    = alone.result[P].weight
                  /\ SumReported(got.result, DOMAIN got.result)
                        = Fraction(SumWeights(nodes, _top_level), 1)

\* The effective weight by the rule of the claim: a top-level stream's own
\* weight; below, (weight / total weight of the siblings) times the effective
\* weight of the parent.
ParentRef(ref) == CHOOSE p \in TreeRefs : ref \in Range(nodes[p].children)

RECURSIVE EffectiveWeight(_)
EffectiveWeight(ref) ==
    IF ref \in Range(_top_level)
    THEN Fraction(nodes[ref].weight, 1)
    ELSE LET parent == EffectiveWeight(ParentRef(ref))
         IN Fraction(nodes[ref].weight * parent[1],
                     level_weight(nodes, nodes[ParentRef(ref)].children)
                         * parent[2])

\* C18: the effective weight _walk reports for a selected stream c whose
\* parent p is blocked is (weight of c / sum of the weights of the children of
\* p) times the effective weight of p, the effective weight of p being its own
\* weight at the top level and the value of the same rule below it.  (Stated
\* for true division, weights in the range and distinct positive IDs.)
C18_EffectiveWeightRule ==
    (last = Idle /\ true_division /\ ProperTree) =>
        \A B \in SUBSET TreeIds :
            LET got == priorities(nodes, _top_level, _streams, B, NoneSet,
                                  true_division)
            IN got.outcome = "ok"
                => \A c \in TreeRefs :
                      (/\ nodes[c].stream_id \in DOMAIN got.result
                       /\ c \notin Range(_top_level))
                      => got.result[nodes[c].stream_id].weight
                            = EffectiveWeight(c)

\* C19: exclusive insertion under the root: insert_stream(x, depends_on = 0,
\* exclusive = True), and the same with depends_on left out, succeeds and
\* makes x the only top-level stream, the former top-level streams being x's
\* children in their former order with their weights.
C19_ExclusiveInsertUnderRoot ==
    [][(/\ ProperInsertStep
        /\ last'.exclusive
        /\ last'.depends_on \in {None, 0}
        /\ last'.stream_id \notin TreeIds)
         => /\ last'.outcome = "ok"
            /\ Len(nodes') = Len(nodes) + 1
            /\ LET x == Len(nodes')
               IN /\ _top_level' = <<x>>
                  /\ nodes'[x].stream_id = last'.stream_id
                  /\ nodes'[x].weight = last'.weight
                  /\ nodes'[x].children = _top_level
                  /\ \A r \in 1..Len(nodes) : nodes'[r] = nodes[r]]_vars

\* How often ref occurs in the list refs, and in the top level and all
\* children lists together.
Occurrences(refs, ref) == Cardinality({i \in 1..Len(refs) : refs[i] = ref})

RECURSIVE OccurrencesInChildren(_, _)
OccurrencesInChildren(n, ref) ==
    IF n = 0 THEN 0
    ELSE Occurrences(nodes[n].children, ref) + OccurrencesInChildren(n - 1, ref)

\* The streams reached from the streams from in at most n steps along children.
RECURSIVE ReachedIn(_, _)
ReachedIn(from, n) ==
    IF n = 0 THEN from
    ELSE ReachedIn(from \cup UNION {Range(nodes[r].children) : r \in from}, n - 1)

\* C20: after insert_stream calls with distinct stream IDs, ordinary and
\* exclusive ones mixed, the streams form a forest under the root: every
\* inserted stream is once in exactly one children list or in the top level, no
\* stream is its own ancestor, every stream is reached from the top level.
C20_ForestUnderRoot ==
    DistinctIds =>
        \A s \in 1..Len(nodes) :
            /\ Occurrences(_top_level, s) + OccurrencesInChildren(Len(nodes), s) = 1
            /\ s \notin ReachedIn(Range(nodes[s].children), Len(nodes))
            /\ s \in ReachedIn(Range(_top_level), Len(nodes))

\* Three streams with distinct IDs, the last of them inserted exclusively
\* under a stream that had a child: it is that stream's only child and has
\* taken the child over.
C20_Witness ==
    /\ DistinctIds
    /\ Len(nodes) = 3
    /\ last.op = "insert_stream"
    /\ last.exclusive
    /\ last.outcome = "ok"
    /\ nodes[3].children # <<>>
    /\ \E p \in 1..2 : nodes[p].children = <<3>>

\* C21: asking for the streams to serve never changes the tree: a call of
\* priorities(), priorities(blocked = B) or priorities(unblocked = U) leaves
\* the top level, every stream's weight and children and the index as they
\* were, so the same query again gives an equal result.
C21_QueryLeavesTreeUnchanged ==
    [][(last = Idle /\ last'.op = "priorities")
         => /\ UNCHANGED <<nodes, _top_level, _streams>>
            /\ LET again == priorities(nodes', _top_level', _streams',
                                       last'.blocked, last'.unblocked,
                                       true_division)
               IN /\ again.outcome = last'.outcome
                  /\ again.result = last'.result]_vars

\* priorities has returned a stream with an effective weight that is not the
\* weight the stream has in the tree.
C21_Witness ==
    /\ ProperTree
    /\ true_division
    /\ last.op = "priorities"
    /\ last.outcome = "ok"
    /\ \E r \in TreeRefs :
          /\ nodes[r].stream_id \in DOMAIN last.result
          /\ last.result[nodes[r].stream_id].weight # Fraction(nodes[r].weight, 1)

\* C22: with nothing blocked, the filtered path and the fast path agree: on
\* every tree that insert_stream calls build, priorities(blocked = []) returns
\* a Priorities equal to that of priorities(): the same stream IDs, each with
\* the same weight and the same children.
C22_EmptyFilterEqualsFastPath ==
    LET filtered == priorities(nodes, _top_level, _streams, {}, NoneSet,
                               true_division)
        fast     == priorities(nodes, _top_level, _streams, NoneSet, NoneSet,
                               true_division)
    IN /\ filtered.outcome = "ok"
       /\ fast.outcome = "ok"
       /\ filtered.result = fast.result

\* priorities(blocked = []) has returned on a tree of two top-level streams of
\* different weights, one of them with a child.
C22_Witness ==
    /\ last.op = "priorities"
    /\ last.blocked = {}
    /\ last.unblocked = NoneSet
    /\ last.outcome = "ok"
    /\ Len(_top_level) = 2
    /\ nodes[_top_level[1]].weight # nodes[_top_level[2]].weight
    /\ \E r \in Range(_top_level) : nodes[r].children # <<>>
    /\ DOMAIN last.result = {nodes[r].stream_id : r \in Range(_top_level)}

\* C23: on every tree that insert_stream calls build and for every blocked set
\* B, also one with IDs that are not in the tree or with streams that have no
\* children, priorities(blocked = B) ends without an error and has examined
\* each stream of the tree at most once.  (Stated for distinct positive IDs.)
C23_WalkTerminatesWithoutError ==
    (DistinctIds /\ \A s \in TreeRefs : nodes[s].stream_id > 0) =>
        \A B \in StreamFilters :
            LET walk == _walk(nodes, _top_level, B, true_division)
            IN /\ priorities(nodes, _top_level, _streams, B, NoneSet,
                             true_division).outcome = "ok"
               /\ \A s \in TreeRefs : Occurrences(walk.examined, s) <= 1

\* ------------------------------------------------- what the code does keep
\* These hold of the code; they bound what the refuted claims lose.

\* Bears on C3: exclusive insertion under a stream the index knows does what
\* C3 says.
ExclusiveInsertUnderIndexedStream ==
    [][(/\ ProperInsertStep
        /\ last'.exclusive
        /\ last'.depends_on \in DOMAIN _streams
        /\ last'.stream_id \notin TreeIds)
         => /\ last'.outcome = "ok"
            /\ Len(nodes') = Len(nodes) + 1
            /\ LET p == CHOOSE r \in TreeRefs : nodes[r].stream_id = last'.depends_on
                   x == Len(nodes')
               IN /\ nodes'[x].stream_id = last'.stream_id
                  /\ nodes'[p].children = <<x>>
                  /\ nodes'[x].children = nodes[p].children
                  /\ \A r \in 1..Len(nodes) : r # p => nodes'[r] = nodes[r]
                  /\ nodes'[p].weight = nodes[p].weight
                  /\ _top_level' = _top_level]_vars

\* Bears on C5: the two ways of blocking agree on a tree whose streams are all
\* in the index.
BlockingIsomorphismWhenIndexed ==
    (last = Idle /\ DOMAIN _streams = TreeIds) =>
        \A S \in SUBSET TreeIds :
            priorities(nodes, _top_level, _streams, S, NoneSet, true_division)
                = priorities(nodes, _top_level, _streams, NoneSet, TreeIds \ S,
                             true_division)

\* Bears on C6: on a proper tree (weights in the range) the walk ends and
\* selects the streams C6 names.
ServedStreamsOnProperTree ==
    (last = Idle /\ ProperTree) =>
        \A B \in StreamFilters :
            LET r == priorities(nodes, _top_level, _streams, B, NoneSet,
                                true_division)
            IN r.outcome = "ok" /\ DOMAIN r.result = Served(B)

\* Bears on C23: with all weights in the range, priorities(blocked = B) ends
\* without an error for every B and examines no stream twice.
WalkTerminatesOnProperTree ==
    ProperTree =>
        \A B \in StreamFilters :
            LET walk == _walk(nodes, _top_level, B, true_division)
            IN /\ walk.outcome = "ok"
               /\ \A s \in TreeRefs : Occurrences(walk.examined, s) <= 1
               /\ Range(walk.examined) \subseteq TreeRefs

\* Bears on C10: an insert_stream call that raises has changed nothing.
FailedInsertChangesNothing ==
    [][(InsertStep /\ last'.outcome # "ok")
         => UNCHANGED <<nodes, _top_level, _streams>>]_vars

====
